---- MODULE Spec2Model ----
(***************************************************************************)
(* Model of the interaction store of the social-interaction tracker:       *)
(* the tables public.interactions and public.user_stats, the AFTER INSERT  *)
(* trigger update_stats_on_interaction with its function                   *)
(* update_user_stats(), and the client operations that write to the store  *)
(* (AddInteraction.handleSubmit in create and in edit mode).               *)
(*                                                                         *)
(* Dates are integers (days since an arbitrary epoch); DATE - DATE in      *)
(* PostgreSQL is the integer number of days between the two dates.         *)
(* Transactions run at PostgreSQL's default isolation level READ           *)
(* COMMITTED: nothing in the repository selects another level.  Every      *)
(* statement sees the rows committed before the statement starts plus the  *)
(* transaction's own writes; a write to a row waits for the transaction    *)
(* that holds an uncommitted write on that row and then works on the       *)
(* newest committed version of the row.                                    *)
(***************************************************************************)
EXTENDS FiniteSets, Integers, Sequences, TLC

\* NEW_row is the trigger's NEW, the interaction row just inserted.

\* ------------------------------------------------------------------ bounds
MaxDay == 4         \* dates are 1..MaxDay
MaxInserts == 4     \* interaction inserts started in a serial run
MaxTxns == 3        \* interaction inserts started in a concurrent run
MaxEdits == 1       \* edits of an existing interaction in a run
MaxRows == 2        \* interaction rows inserted while any request is sent
MaxFetched == 3     \* interaction rows of the user when a view loads
MaxText == 2        \* symbols in a location or a notes text
MaxChecked == 1     \* interaction rows inserted while the constraints are tried

Users == {"u1", "u2"}
Days == 1..MaxDay
\* two client sessions (browser tabs, devices) that may run concurrently
Sessions == {"s1", "s2"}

\* SQL NULL of the nullable column last_interaction_date
NULL == 0

VARIABLES
    interactions,   \* committed rows of public.interactions
    user_stats,     \* committed rows of public.user_stats
    tx,             \* per session: the INSERT transaction in progress
    nextId,         \* per user: number of interaction ids handed out, plus 1
    edits,          \* number of edits performed
    log,            \* history: one entry per committed interaction insert
    lin,            \* history: outcomes of the serial executions of the
                    \* inserts that agree with the order of commits
    settings,       \* the Settings view: handleDeleteAllData in progress
    req,            \* the last request a client sent to the store, and
                    \* what the store answered
    now,            \* the browser's clock: new Date(), and its time zone
    analytics,      \* the Analytics view: isLoading and data
    csv,            \* the Settings view's export: the toast and the file
    home,           \* the Home view: isLoading and stats
    insights,       \* the Insights view: isLoading, isRefreshing, the list
    edge,           \* the call to an edge function: its request, how far
                    \* it got, and the function's response
    calls,          \* per view: the outbound call its load is awaiting
    shell           \* the view shell: currentView, editingInteractionId

\* the views that only read the store
edgeVars == <<insights, edge, calls, shell>>

pageVars == <<now, analytics, csv, home, edgeVars>>

\* the state of the clients: their views and their last request
viewVars == <<settings, req, pageVars>>

vars == <<interactions, user_stats, tx, nextId, edits, log, lin, viewVars>>

\* ------------------------------------------------------------ the tables

\* a row of public.interactions (the columns the stats depend on)
InteractionRow(id, user_id, date) ==
    [id |-> id, user_id |-> user_id, date |-> date]

\* gen_random_uuid(): an id no other row has
NewId(u) == <<u, nextId[u]>>

\* the number of interaction inserts started so far
RECURSIVE SumOver(_, _)
SumOver(f, S) ==
    IF S = {} THEN 0
    ELSE LET x == CHOOSE x \in S : TRUE IN f[x] + SumOver(f, S \ {x})

Started == SumOver(nextId, Users) - Cardinality(Users)

\* the row INSERT INTO public.user_stats (user_id) VALUES (u) creates:
\* every other column takes its DEFAULT
ZeroRow(u) ==
    [user_id |-> u, current_streak |-> 0, longest_streak |-> 0,
     total_interactions |-> 0, last_interaction_date |-> NULL]

\* SELECT * FROM a_table WHERE user_id = u
RowsOf(table, u) == {r \in table : r.user_id = u}

\* row-level security: USING / WITH CHECK (auth.uid() = user_id)
OwnRow(uid, row) == uid = row.user_id

GREATEST(a, b) == IF a >= b THEN a ELSE b

\* ------------------------------------------- update_user_stats(), pure part

\* INSERT INTO public.user_stats (user_id) VALUES (NEW.user_id)
\* ON CONFLICT (user_id) DO NOTHING
EnsureRow(table, u) ==
    IF RowsOf(table, u) = {} THEN table \cup {ZeroRow(u)} ELSE table

\* IF user_record.last_interaction_date IS NULL THEN 0
\* ELSE NEW_row.date - user_record.last_interaction_date
DaysSinceLast(user_record, NEW_row) ==
    IF user_record.last_interaction_date = NULL
    THEN 0
    ELSE NEW_row.date - user_record.last_interaction_date

\* NewStreak counting a same-day repeat as a new day
NewStreak_SameDayCounts(row, days_since_last) ==
    IF days_since_last <= 1 THEN row.current_streak + 1 ELSE 1

\* the CASE expression of the UPDATE, over the row being updated
NewStreak(row, days_since_last) ==
    IF days_since_last <= 1
    THEN row.current_streak + (IF days_since_last = 0 THEN 0 ELSE 1)
    ELSE 1

\* UpdateRow without GREATEST: longest_streak follows current_streak
UpdateRow_NoGreatest(row, days_since_last, NEW_row) ==
    [user_id |-> row.user_id,
     total_interactions |-> row.total_interactions + 1,
     last_interaction_date |-> NEW_row.date,
     current_streak |-> NewStreak(row, days_since_last),
     longest_streak |-> NewStreak(row, days_since_last)]

\* the SET list of the UPDATE applied to one row of user_stats
UpdateRow(row, days_since_last, NEW_row) ==
    [user_id |-> row.user_id,
     total_interactions |-> row.total_interactions + 1,
     last_interaction_date |-> NEW_row.date,
     current_streak |-> NewStreak(row, days_since_last),
     longest_streak |-> GREATEST(row.longest_streak,
                                 NewStreak(row, days_since_last))]

\* the whole trigger function run alone on a committed table
ApplyInsert(table, NEW_row) ==
    LET ensured == EnsureRow(table, NEW_row.user_id)
        user_record == CHOOSE r \in RowsOf(ensured, NEW_row.user_id) : TRUE
        days_since_last == DaysSinceLast(user_record, NEW_row)
    IN  {IF r.user_id = NEW_row.user_id
         THEN UpdateRow(r, days_since_last, NEW_row) ELSE r : r \in ensured}

\* ------------------------------------------------------------ transactions

IdleTx == [pc |-> "idle"]

InFlight == {s \in Sessions : tx[s].pc # "idle"}

\* the session's uncommitted version of its user's user_stats row, if any
Written(s) == IF tx[s].pc = "idle" THEN {} ELSE tx[s].written

\* another session holds an uncommitted INSERT or UPDATE of u's stats row
Locked(s, u) ==
    \E t \in Sessions \ {s} :
        /\ tx[t].pc # "idle"
        /\ tx[t].written # {}
        /\ tx[t].NEW_row.user_id = u

\* what a statement of session s sees of u's stats row
Visible(s, u) ==
    IF Written(s) # {} THEN Written(s) ELSE RowsOf(user_stats, u)

LogEntry(t, before, after) ==
    [id |-> t.NEW_row.id, user_id |-> t.NEW_row.user_id,
     date |-> t.NEW_row.date,
     read |-> t.user_record,
     days_since_last |-> t.days_since_last,
     before |-> before, after |-> after]

\* the serial outcomes after some of the inserts in flight are applied,
\* in any order, to the outcomes in C
RECURSIVE Closure(_, _)
Closure(C, n) ==
    IF n = 0 THEN C
    ELSE Closure(C \cup UNION {{[stats |-> ApplyInsert(c.stats, tx[t].NEW_row),
                                  done |-> c.done \cup {t}] :
                                    t \in InFlight \ c.done} : c \in C},
                 n - 1)

\* handleSubmit in create mode: supabase.from('interactions').insert(...)
\* with user_id: user.id.  The row is inserted (uncommitted) and the AFTER
\* INSERT trigger runs its first statement in the same transaction:
\* INSERT INTO public.user_stats (user_id) VALUES (NEW.user_id)
\* ON CONFLICT (user_id) DO NOTHING, which waits for an uncommitted write of
\* the conflicting row
InsertInteraction(s, uid, d) ==
    /\ tx[s].pc = "idle"
    /\ OwnRow(uid, InteractionRow(NewId(uid), uid, d))
    /\ ~Locked(s, uid)
    /\ tx' = [tx EXCEPT ![s] =
                [pc |-> "ensured", NEW_row |-> InteractionRow(NewId(uid), uid, d),
                 user_record |-> ZeroRow(uid), days_since_last |-> 0,
                 before |-> ZeroRow(uid),
                 written |-> EnsureRow(user_stats, uid) \ user_stats]]
    /\ nextId' = [nextId EXCEPT ![uid] = @ + 1]
    /\ UNCHANGED <<interactions, user_stats, edits, log, lin, viewVars>>

\* SELECT * INTO user_record ...; the IF that sets days_since_last
SelectRecord(s) ==
    /\ tx[s].pc = "ensured"
    /\ \E r \in Visible(s, tx[s].NEW_row.user_id) :
        tx' = [tx EXCEPT ![s].pc = "selected",
                         ![s].user_record = r,
                         ![s].days_since_last = DaysSinceLast(r, tx[s].NEW_row)]
    /\ UNCHANGED <<interactions, user_stats, nextId, edits, log, lin, viewVars>>

\* UpdateStats computing the new row from user_record, the row as the
\* trigger read it, instead of from the row being updated
UpdateStats_FromRecord(s) ==
    /\ tx[s].pc = "selected"
    /\ ~Locked(s, tx[s].NEW_row.user_id)
    /\ \E r \in Visible(s, tx[s].NEW_row.user_id) :
        tx' = [tx EXCEPT ![s].pc = "updated",
                         ![s].before = r,
                         ![s].written =
                            {UpdateRow(tx[s].user_record, tx[s].days_since_last,
                                       tx[s].NEW_row)}]
    /\ UNCHANGED <<interactions, user_stats, nextId, edits, log, lin, viewVars>>

\* UPDATE public.user_stats SET ... WHERE user_id = NEW.user_id: waits for
\* an uncommitted write of the row, then updates its newest version; the
\* column references in the SET list are to that version, days_since_last
\* is the variable computed before.  The new version stays uncommitted, and
\* the row locked, until the transaction ends
UpdateStats(s) ==
    /\ tx[s].pc = "selected"
    /\ ~Locked(s, tx[s].NEW_row.user_id)
    /\ \E r \in Visible(s, tx[s].NEW_row.user_id) :
        tx' = [tx EXCEPT ![s].pc = "updated",
                         ![s].before = r,
                         ![s].written =
                            {UpdateRow(r, tx[s].days_since_last, tx[s].NEW_row)}]
    /\ UNCHANGED <<interactions, user_stats, nextId, edits, log, lin, viewVars>>

\* RETURN NEW ends the trigger and the statement; the transaction commits:
\* the interaction row and the stats row become visible together
Commit(s) ==
    /\ tx[s].pc = "updated"
    /\ interactions' = interactions \cup {tx[s].NEW_row}
    /\ user_stats' = (user_stats \ RowsOf(user_stats, tx[s].NEW_row.user_id))
                        \cup tx[s].written
    /\ \E r \in tx[s].written :
        log' = [log EXCEPT ![r.user_id] =
                    Append(@, LogEntry(tx[s], tx[s].before, r))]
    /\ lin' = {[stats |-> c.stats, done |-> c.done \ {s}] :
                c \in {c \in Closure(lin, Cardinality(InFlight)) : s \in c.done}}
    /\ tx' = [tx EXCEPT ![s] = IdleTx]
    /\ UNCHANGED <<nextId, edits, viewVars>>

\* Abort after an insert that had committed on its own, before the trigger
\* ran: the interaction row stays
Abort_KeepsRow(s) ==
    /\ tx[s].pc # "idle"
    /\ interactions' = interactions \cup {tx[s].NEW_row}
    /\ lin' = {c \in lin : s \notin c.done}
    /\ tx' = [tx EXCEPT ![s] = IdleTx]
    /\ UNCHANGED <<user_stats, nextId, edits, log, viewVars>>

\* any failure inside the statement or the trigger: the transaction is
\* rolled back
Abort(s) ==
    /\ tx[s].pc # "idle"
    /\ lin' = {c \in lin : s \notin c.done}
    /\ tx' = [tx EXCEPT ![s] = IdleTx]
    /\ UNCHANGED <<interactions, user_stats, nextId, edits, log, viewVars>>

\* EditInteraction with the stats trigger firing on UPDATE as well
EditInteraction_FiresTrigger(uid, id, d) ==
    /\ edits < MaxEdits
    /\ \E r \in interactions :
        /\ r.id = id
        /\ OwnRow(uid, r)
        /\ interactions' = (interactions \ {r})
                              \cup {InteractionRow(r.id, uid, d)}
        /\ user_stats' = ApplyInsert(user_stats, InteractionRow(r.id, uid, d))
    /\ edits' = edits + 1
    /\ UNCHANGED <<tx, nextId, log, lin, viewVars>>

\* handleSubmit in edit mode:
\* supabase.from('interactions').update(...).eq('id', editingId); the only
\* trigger on UPDATE is update_interactions_updated_at
EditRow(uid, id, d) ==
    /\ edits < MaxEdits
    /\ \E r \in interactions :
        /\ r.id = id
        /\ OwnRow(uid, r)
        /\ interactions' = (interactions \ {r})
                              \cup {InteractionRow(r.id, uid, d)}
    /\ edits' = edits + 1
    /\ UNCHANGED <<user_stats, tx, nextId, log, lin>>

EditInteraction(uid, id, d) == EditRow(uid, id, d) /\ UNCHANGED viewVars

\* one insert run alone from statement to commit
InsertRow(uid, d) ==
    /\ InFlight = {}
    /\ OwnRow(uid, InteractionRow(NewId(uid), uid, d))
    /\ LET NEW_row == InteractionRow(NewId(uid), uid, d)
           ensured == EnsureRow(user_stats, uid)
           user_record == CHOOSE r \in RowsOf(ensured, uid) : TRUE
       IN  /\ interactions' = interactions \cup {NEW_row}
           /\ user_stats' = ApplyInsert(user_stats, NEW_row)
           /\ log' = [log EXCEPT ![uid] = Append(@,
                LogEntry([NEW_row |-> NEW_row, user_record |-> user_record,
                          days_since_last |-> DaysSinceLast(user_record, NEW_row)],
                         user_record,
                         CHOOSE r \in RowsOf(ApplyInsert(user_stats, NEW_row), uid) : TRUE))]
           /\ lin' = {[stats |-> ApplyInsert(c.stats, NEW_row), done |-> {}] :
                        c \in lin}
    /\ nextId' = [nextId EXCEPT ![uid] = @ + 1]
    /\ UNCHANGED <<tx, edits>>

InsertSerial(uid, d) == InsertRow(uid, d) /\ UNCHANGED viewVars

\* ------------------------------------------------- row-level security

\* the policies of the two tables: a command on a row passes when some
\* policy FOR that command has a true USING / WITH CHECK expression; a
\* table with row-level security enabled and no policy for a command
\* passes no row for it.  public.user_stats has no policy FOR DELETE
Permits_UpdateAny(table, cmd, uid, row) ==
    CASE table = "interactions" /\ cmd \in {"SELECT", "INSERT", "DELETE"}
            -> OwnRow(uid, row)
      [] table = "user_stats" /\ cmd \in {"SELECT", "UPDATE", "INSERT"}
            -> OwnRow(uid, row)
      [] table = "interactions" /\ cmd = "UPDATE" -> TRUE
      [] OTHER -> FALSE

Permits(table, cmd, uid, row) ==
    CASE table = "interactions" /\ cmd \in {"SELECT", "INSERT", "UPDATE", "DELETE"}
            -> OwnRow(uid, row)
      [] table = "user_stats" /\ cmd \in {"SELECT", "UPDATE", "INSERT"}
            -> OwnRow(uid, row)
      [] OTHER -> FALSE

\* ------------------------------------------------ Settings: delete all

SettingsIdle == [pc |-> "idle", isDeleting |-> FALSE, toast |-> "none"]

\* handleDeleteAllData up to the first request: setIsDeleting(true),
\* supabase.auth.getUser()
DeleteAllStart(uid) ==
    /\ settings.pc = "idle"
    /\ InFlight = {}
    /\ settings' = [pc |-> "delete_interactions", uid |-> uid,
                    isDeleting |-> TRUE, toast |-> "none"]
    /\ UNCHANGED <<interactions, user_stats, tx, nextId, edits, log, lin, req, pageVars>>

\* supabase.from('interactions').delete().eq('user_id', user.id): the rows
\* that match and that the DELETE policy passes are removed; a failed
\* request throws to the catch block
DeleteInteractions(failed) ==
    /\ settings.pc = "delete_interactions"
    /\ IF failed
       THEN /\ settings' = [pc |-> "idle", isDeleting |-> FALSE,
                            toast |-> "Delete failed"]
            /\ UNCHANGED interactions
       ELSE /\ interactions' =
                {r \in interactions :
                    ~(r.user_id = settings.uid
                        /\ Permits("interactions", "DELETE", settings.uid, r))}
            /\ settings' = [settings EXCEPT !.pc = "delete_user_stats"]
    /\ UNCHANGED <<user_stats, tx, nextId, edits, log, lin, req, pageVars>>

\* supabase.from('user_stats').delete().eq('user_id', user.id), then the
\* toast and the finally block; a statement that deletes no row is no error
DeleteUserStats(failed) ==
    /\ settings.pc = "delete_user_stats"
    /\ IF failed
       THEN /\ settings' = [pc |-> "idle", isDeleting |-> FALSE,
                            toast |-> "Delete failed"]
            /\ UNCHANGED user_stats
       ELSE /\ user_stats' =
                {r \in user_stats :
                    ~(r.user_id = settings.uid
                        /\ Permits("user_stats", "DELETE", settings.uid, r))}
            /\ settings' = [pc |-> "idle", uid |-> settings.uid,
                            isDeleting |-> FALSE, toast |-> "All data deleted"]
    /\ UNCHANGED <<interactions, tx, nextId, edits, log, lin, req, pageVars>>

\* ------------------------------------------- requests of any client

\* the answer to a request: the rows a SELECT returned, and whether the
\* statement ran ("ok") or was refused with an error
RequestOf(actor, op, table, owner, rows, outcome) ==
    [actor |-> actor, op |-> op, table |-> table, owner |-> owner,
     rows |-> rows, outcome |-> outcome]

NoRequest == RequestOf("nobody", "none", "none", "nobody", {}, "ok")

\* SELECT * FROM table, sent with actor's token
ReqSelect(actor, table) ==
    /\ table \in {"interactions", "user_stats"}
    /\ req' = RequestOf(actor, "SELECT", table, actor,
                {r \in (IF table = "interactions" THEN interactions
                        ELSE user_stats) :
                    Permits(table, "SELECT", actor, r)}, "ok")
    /\ UNCHANGED <<interactions, user_stats, tx, nextId, edits, log, lin,
                   settings, pageVars>>

\* INSERT INTO interactions (user_id, date, ...) VALUES (owner, d, ...),
\* sent with actor's token: WITH CHECK refuses the statement, or the row is
\* stored and the trigger runs with the actor's rights
ReqInsertInteraction(actor, owner, d) ==
    LET NEW_row == InteractionRow(NewId(actor), owner, d) IN
    /\ InFlight = {}
    /\ IF Permits("interactions", "INSERT", actor, NEW_row)
       THEN /\ Started < MaxRows
            /\ interactions' = interactions \cup {NEW_row}
            /\ user_stats' = ApplyInsert(user_stats, NEW_row)
            /\ nextId' = [nextId EXCEPT ![actor] = @ + 1]
            /\ req' = RequestOf(actor, "INSERT", "interactions", owner, {}, "ok")
       ELSE /\ req' = RequestOf(actor, "INSERT", "interactions", owner, {},
                                "error")
            /\ UNCHANGED <<interactions, user_stats, nextId>>
    /\ UNCHANGED <<tx, edits, log, lin, settings, pageVars>>

\* UPDATE interactions SET user_id = owner, date = d WHERE id = r.id: a row
\* USING does not pass is not found; a new row WITH CHECK (here the USING
\* expression, the policy has no other) does not pass is an error
ReqUpdateInteraction(actor, r, owner, d) ==
    LET new == InteractionRow(r.id, owner, d) IN
    /\ r \in interactions
    /\ IF ~Permits("interactions", "UPDATE", actor, r)
       THEN /\ req' = RequestOf(actor, "UPDATE", "interactions", r.user_id,
                                {}, "ok")
            /\ UNCHANGED interactions
       ELSE IF ~Permits("interactions", "UPDATE", actor, new)
       THEN /\ req' = RequestOf(actor, "UPDATE", "interactions", r.user_id,
                                {}, "error")
            /\ UNCHANGED interactions
       ELSE /\ req' = RequestOf(actor, "UPDATE", "interactions", r.user_id,
                                {new}, "ok")
            /\ interactions' = (interactions \ {r}) \cup {new}
    /\ UNCHANGED <<user_stats, tx, nextId, edits, log, lin, settings, pageVars>>

\* DELETE FROM interactions WHERE id = r.id
ReqDeleteInteraction(actor, r) ==
    /\ r \in interactions
    /\ IF Permits("interactions", "DELETE", actor, r)
       THEN /\ interactions' = interactions \ {r}
            /\ req' = RequestOf(actor, "DELETE", "interactions", r.user_id,
                                {r}, "ok")
       ELSE /\ req' = RequestOf(actor, "DELETE", "interactions", r.user_id,
                                {}, "ok")
            /\ UNCHANGED interactions
    /\ UNCHANGED <<user_stats, tx, nextId, edits, log, lin, settings, pageVars>>

\* INSERT INTO user_stats (user_id) VALUES (owner): WITH CHECK, then the
\* UNIQUE constraint on user_id
ReqInsertStats(actor, owner) ==
    /\ IF Permits("user_stats", "INSERT", actor, ZeroRow(owner))
            /\ RowsOf(user_stats, owner) = {}
       THEN /\ user_stats' = user_stats \cup {ZeroRow(owner)}
            /\ req' = RequestOf(actor, "INSERT", "user_stats", owner, {}, "ok")
       ELSE /\ req' = RequestOf(actor, "INSERT", "user_stats", owner, {},
                                "error")
            /\ UNCHANGED user_stats
    /\ UNCHANGED <<interactions, tx, nextId, edits, log, lin, settings, pageVars>>

\* UPDATE user_stats SET user_id = owner, current_streak = 0
\* WHERE user_id = r.user_id
ReqUpdateStats(actor, r, owner) ==
    LET new == [r EXCEPT !.user_id = owner, !.current_streak = 0] IN
    /\ r \in user_stats
    /\ IF ~Permits("user_stats", "UPDATE", actor, r)
       THEN /\ req' = RequestOf(actor, "UPDATE", "user_stats", r.user_id,
                                {}, "ok")
            /\ UNCHANGED user_stats
       ELSE IF ~Permits("user_stats", "UPDATE", actor, new)
                \/ (owner # r.user_id /\ RowsOf(user_stats, owner) # {})
       THEN /\ req' = RequestOf(actor, "UPDATE", "user_stats", r.user_id,
                                {}, "error")
            /\ UNCHANGED user_stats
       ELSE /\ req' = RequestOf(actor, "UPDATE", "user_stats", r.user_id,
                                {new}, "ok")
            /\ user_stats' = (user_stats \ {r}) \cup {new}
    /\ UNCHANGED <<interactions, tx, nextId, edits, log, lin, settings, pageVars>>

\* DELETE FROM user_stats WHERE user_id = r.user_id
ReqDeleteStats(actor, r) ==
    /\ r \in user_stats
    /\ IF Permits("user_stats", "DELETE", actor, r)
       THEN /\ user_stats' = user_stats \ {r}
            /\ req' = RequestOf(actor, "DELETE", "user_stats", r.user_id,
                                {r}, "ok")
       ELSE /\ req' = RequestOf(actor, "DELETE", "user_stats", r.user_id,
                                {}, "ok")
            /\ UNCHANGED user_stats
    /\ UNCHANGED <<interactions, tx, nextId, edits, log, lin, settings, pageVars>>

\* ------------------------------------------------ column constraints

\* SQL NULL in a TEXT column
NullText == "<NULL>"

AgeRanges == {"Under 18", "18-24", "25-34", "35-44", "45+"}
Ethnicities == {"White", "Black", "Hispanic/Latino", "Asian",
                "Middle Eastern", "Mixed", "Other"}
Qualities == {"Good", "Neutral", "Bad"}

\* the slider's initial value: attractivenessRating: [5]
DefaultRating == 5

\* an interaction row with the columns that carry a CHECK
CheckedRow(id, user_id, date, age_range, ethnicity, attractiveness_rating, interaction_quality) ==
    [id |-> id, user_id |-> user_id, date |-> date, age_range |-> age_range,
     ethnicity |-> ethnicity,
     attractiveness_rating |-> attractiveness_rating,
     interaction_quality |-> interaction_quality]

\* the row of a quick log: only the rating is set
QuickRow(id, user_id, date) ==
    CheckedRow(id, user_id, date, NullText, NullText, DefaultRating, NullText)

CheckConstraints_NoUpper(row) ==
    /\ row.attractiveness_rating # NULL
    /\ row.attractiveness_rating >= 1
    /\ row.age_range = NullText \/ row.age_range \in AgeRanges
    /\ row.ethnicity = NullText \/ row.ethnicity \in Ethnicities
    /\ row.interaction_quality = NullText
        \/ row.interaction_quality \in Qualities

\* NOT NULL and CHECK of public.interactions after the columns age_range,
\* ethnicity and interaction_quality dropped NOT NULL: a CHECK whose
\* expression is NULL passes
CheckConstraints(row) ==
    /\ row.attractiveness_rating # NULL
    /\ row.attractiveness_rating >= 1 /\ row.attractiveness_rating <= 10
    /\ row.age_range = NullText \/ row.age_range \in AgeRanges
    /\ row.ethnicity = NullText \/ row.ethnicity \in Ethnicities
    /\ row.interaction_quality = NullText
        \/ row.interaction_quality \in Qualities

\* the values a request may carry for a column: allowed ones, NULL, and
\* ones outside the column's set
SentValues(col) ==
    CASE col = "attractiveness_rating" -> {NULL, 1, 10, 11}
      [] col = "age_range" -> {NullText, "18-24", "18 to 24"}
      [] col = "ethnicity" -> {NullText, "Asian", "Unknown"}
      [] col = "interaction_quality" -> {NullText, "Good", "Great"}

CheckedColumns ==
    {"attractiveness_rating", "age_range", "ethnicity", "interaction_quality"}

CheckedRequest(actor, op, sent, outcome) ==
    [actor |-> actor, op |-> op, table |-> "interactions",
     owner |-> sent.user_id, rows |-> {}, outcome |-> outcome, sent |-> sent]

\* supabase.from('interactions').insert(interactionData): a row that fails
\* a constraint aborts the statement, trigger included
StoreInsert(actor, col, v) ==
    LET NEW_row == [QuickRow(NewId(actor), actor, 1) EXCEPT ![col] = v] IN
    /\ InFlight = {}
    /\ Started < MaxChecked
    /\ IF CheckConstraints(NEW_row)
       THEN /\ interactions' = interactions \cup {NEW_row}
            /\ user_stats' = ApplyInsert(user_stats, NEW_row)
            /\ nextId' = [nextId EXCEPT ![actor] = @ + 1]
            /\ req' = CheckedRequest(actor, "INSERT", NEW_row, "ok")
       ELSE /\ req' = CheckedRequest(actor, "INSERT", NEW_row, "error")
            /\ UNCHANGED <<interactions, user_stats, nextId>>
    /\ UNCHANGED <<tx, edits, log, lin, settings, pageVars>>

\* supabase.from('interactions').update(interactionData).eq('id', editingId)
StoreUpdate(actor, r, col, v) ==
    LET new == [r EXCEPT ![col] = v] IN
    /\ r \in interactions
    /\ Permits("interactions", "UPDATE", actor, r)
    /\ IF CheckConstraints(new)
       THEN /\ interactions' = (interactions \ {r}) \cup {new}
            /\ req' = CheckedRequest(actor, "UPDATE", new, "ok")
       ELSE /\ req' = CheckedRequest(actor, "UPDATE", new, "error")
            /\ UNCHANGED interactions
    /\ UNCHANGED <<user_stats, tx, nextId, edits, log, lin, settings, pageVars>>

\* ------------------------------------------------------ dates in the client

\* the day number of the UTC calendar date of the first clock reading
Today == 40

\* a Date object: the calendar date of the instant in UTC and in the
\* browser's time zone (they differ by at most one day)
Instant(utc, local) == [utc |-> utc, local |-> local]

\* the browser's clock: east is true when the zone is ahead of UTC
Clock(utc, local, east) == [utc |-> utc, local |-> local, east |-> east]

\* the readings a browser can have: a zone ahead of UTC is on the same date
\* or the next, a zone behind (or UTC itself) on the same date or the one
\* before
Clocks(utcDays) ==
    UNION {{Clock(u, u, TRUE), Clock(u, u + 1, TRUE),
            Clock(u, u - 1, FALSE), Clock(u, u, FALSE)} : u \in utcDays}

\* new Date()
NewDate == Instant(now.utc, now.local)

\* subDays(date, amount) of date-fns, date.setDate(date.getDate() - amount):
\* the same local time of day, amount days earlier
subDays(date, amount) == Instant(date.utc - amount, date.local - amount)

\* date.toISOString().split('T')[0]: the calendar date in UTC
ISODate(date) == date.utc

\* format(date, 'MMM d') of date-fns: the calendar date in the local zone
format(date) == date.local

\* date.getDay(): the local day of the week, 0 for Sunday; day 0 is a Sunday
getDay(date) == date.local % 7

\* local midnight of a local calendar date: in a zone ahead of UTC that
\* instant is still on the previous date in UTC
startOfDay(local) ==
    Instant(IF now.east THEN local - 1 ELSE local, local)

\* eachDayOfInterval({start, end}) of date-fns: the local midnights of the
\* local calendar dates from start's to end's
eachDayOfInterval(start, end) ==
    [k \in 1..(end.local - start.local + 1) |->
        startOfDay(start.local + k - 1)]

\* Math.round(p / q * 10) / 10 for p >= 0, q > 0, in tenths
Round10(p, q) == (20 * p + q) \div (2 * q)

\* ---------------------------------------------------------------- Analytics

\* useState of data and isLoading
AnalyticsMount ==
    [isLoading |-> TRUE, loaded |-> FALSE, dailyData |-> <<>>,
     qualityData |-> {}, avgRating |-> 0, totalInteractions |-> 0,
     avgPerDay |-> 0, avgPerWeek |-> 0, toast |-> "none"]

\* .from('interactions').select('*').eq('user_id', user.id)
\* .gte('date', thirtyDaysAgo.toISOString().split('T')[0])
AnalyticsFetch(uid) ==
    {i \in interactions :
        /\ Permits("interactions", "SELECT", uid, i)
        /\ i.user_id = uid
        /\ i.date >= ISODate(subDays(NewDate, 30))}

\* dateRange.map(date => ...): one point per element of dateRange
DailyData(fetched) ==
    LET dateRange == eachDayOfInterval(subDays(NewDate, 29), NewDate)
    IN  [k \in DOMAIN dateRange |->
            [date |-> format(dateRange[k]),
             interactions |->
                Cardinality({i \in fetched : i.date = ISODate(dateRange[k])})]]

\* the property key acc[interaction.interaction_quality] names: a property
\* key is a string, null becomes "null"
PropertyKey(v) == IF v = NullText THEN "null" ELSE v

QualityColor(name) ==
    CASE name = "Good" -> "hsl(var(--success))"
      [] name = "Neutral" -> "hsl(var(--warning))"
      [] name = "Bad" -> "hsl(var(--destructive))"
      [] OTHER -> "hsl(var(--muted))"

QualityData_Mapped(fetched) ==
    {[name |-> name,
      value |-> Cardinality({i \in fetched :
                                PropertyKey(i.interaction_quality) = name}),
      color |-> QualityColor(name)] :
        name \in {PropertyKey(i.interaction_quality) : i \in fetched}
                    \cap Qualities}

\* Object.entries(qualityGroups).map(...): one entry per key the reduce
\* created, with the number of interactions under the key
QualityData(fetched) ==
    {[name |-> name,
      value |-> Cardinality({i \in fetched :
                                PropertyKey(i.interaction_quality) = name}),
      color |-> QualityColor(name)] :
        name \in {PropertyKey(i.interaction_quality) : i \in fetched}}

RECURSIVE SumRatings(_)
SumRatings(rows) ==
    IF rows = {} THEN 0
    ELSE LET i == CHOOSE i \in rows : TRUE
         IN  i.attractiveness_rating + SumRatings(rows \ {i})

AvgRating_Floor(fetched) ==
    IF Cardinality(fetched) > 0
    THEN (10 * SumRatings(fetched)) \div Cardinality(fetched)
    ELSE 0

\* Math.round(avgRating * 10) / 10, in tenths
AvgRating(fetched) ==
    IF Cardinality(fetched) > 0
    THEN Round10(SumRatings(fetched), Cardinality(fetched))
    ELSE 0

\* what loadAnalytics leaves in the view for a signed-in user: a query that
\* answers { data: null, error } makes it return with the initial data
\* (setIsLoading(false); return), a call that rejects reaches the catch block
\* (toast) and the finally block, otherwise setData
AnalyticsLoaded_StillLoading(uid, outcome) ==
    IF outcome = "error" THEN analytics
    ELSE IF outcome = "rejected"
    THEN [analytics EXCEPT !.isLoading = FALSE,
                           !.toast = "Error loading analytics"]
    ELSE LET fetched == AnalyticsFetch(uid) IN
         [isLoading |-> FALSE, loaded |-> TRUE,
          dailyData |-> DailyData(fetched),
          qualityData |-> QualityData(fetched),
          avgRating |-> AvgRating(fetched),
          totalInteractions |-> Cardinality(fetched),
          avgPerDay |-> Round10(Cardinality(fetched), 30),
          avgPerWeek |-> Round10(Cardinality(fetched) * 7, 30),
          toast |-> "none"]

AnalyticsLoaded(uid, outcome) ==
    IF outcome = "error" THEN [analytics EXCEPT !.isLoading = FALSE]
    ELSE IF outcome = "rejected"
    THEN [analytics EXCEPT !.isLoading = FALSE,
                           !.toast = "Error loading analytics"]
    ELSE LET fetched == AnalyticsFetch(uid) IN
         [isLoading |-> FALSE, loaded |-> TRUE,
          dailyData |-> DailyData(fetched),
          qualityData |-> QualityData(fetched),
          avgRating |-> AvgRating(fetched),
          totalInteractions |-> Cardinality(fetched),
          avgPerDay |-> Round10(Cardinality(fetched), 30),
          avgPerWeek |-> Round10(Cardinality(fetched) * 7, 30),
          toast |-> "none"]

\* loadAnalytics for a signed-in user, from mount to its return
LoadAnalytics(uid, failed) ==
    /\ analytics.isLoading
    /\ analytics' = AnalyticsLoaded(uid, IF failed THEN "error" ELSE "ok")
    /\ UNCHANGED <<interactions, user_stats, tx, nextId, edits, log, lin,
                   settings, req, now, csv, home, edgeVars>>

\* ------------------------------------------------- Settings: export

\* a text is a sequence of symbols: the three characters a CSV reader
\* treats specially, and "a" for any run of other characters
QUOTE == "\""
COMMA == ","
NEWLINE == "\n"
Symbols == {QUOTE, COMMA, NEWLINE, "a"}

Texts(n) == UNION {[1..k -> Symbols] : k \in 0..n}

\* SQL NULL in the columns location and notes
NullSeq == <<NullText>>

\* text || '': null and the empty text both give ''
OrEmpty(text) == IF text = NullSeq \/ text = <<>> THEN <<>> ELSE text

\* how Array.prototype.join writes an element: null as '', a string as its
\* characters, a number (or a date the store returned) as its digits; none
\* of these holds a special character
Joined(v) == IF v = NullText THEN <<>> ELSE <<v>>
JoinedNumber(n) == <<ToString(n)>>

\* text.replace(/"/g, '""')
RECURSIVE DoubleQuotes(_)
DoubleQuotes(text) ==
    IF text = <<>> THEN <<>>
    ELSE (IF Head(text) = QUOTE THEN <<QUOTE, QUOTE>> ELSE <<Head(text)>>)
            \o DoubleQuotes(Tail(text))

\* array.join(sep)
RECURSIVE Join(_, _)
Join(array, sep) ==
    IF array = <<>> THEN <<>>
    ELSE IF Len(array) = 1 THEN array[1]
    ELSE array[1] \o <<sep>> \o Join(Tail(array), sep)

\* `"${(i.notes || '').replace(/"/g, '""')}"`
QuotedNotes(i) == <<QUOTE>> \o DoubleQuotes(OrEmpty(i.notes)) \o <<QUOTE>>

\* the array of one interaction, joined with ','
CsvRow(i) ==
    Join(<<JoinedNumber(i.date), Joined(i.time), OrEmpty(i.location),
           Joined(i.age_range), Joined(i.ethnicity),
           JoinedNumber(i.attractiveness_rating),
           Joined(i.interaction_quality),
           QuotedNotes(i)>>, COMMA)

Headers ==
    <<"Date", "Time", "Location", "Age Range", "Ethnicity", "Rating",
      "Quality", "Notes">>

\* [headers.join(','), ...interactions.map(...)].join('\n')
CsvContent(rows) ==
    Join(<<Join([k \in DOMAIN Headers |-> <<Headers[k]>>], COMMA)>>
            \o [k \in DOMAIN rows |-> CsvRow(rows[k])], NEWLINE)

\* an interaction row with the columns the export writes
ExportRow(id, user_id, date, location, notes) ==
    [id |-> id, user_id |-> user_id, date |-> date, time |-> "12:00:00",
     location |-> location, age_range |-> NullText, ethnicity |-> NullText,
     attractiveness_rating |-> DefaultRating,
     interaction_quality |-> NullText, notes |-> notes]

\* the rows in the order of .order('date', { ascending: false })
RECURSIVE Ordered(_)
Ordered(rows) ==
    IF rows = {} THEN <<>>
    ELSE LET i == CHOOSE i \in rows : \A j \in rows : i.date >= j.date
         IN  <<i>> \o Ordered(rows \ {i})

NoExport == [toast |-> "none", content |-> <<>>]

\* handleExportData for a signed-in user: a failed query leaves data null
ExportData(uid, failed) ==
    /\ csv.toast = "none"
    /\ IF failed
       THEN csv' = [toast |-> "No data to export", content |-> <<>>]
       ELSE csv' = [toast |-> "Data exported",
                    content |-> CsvContent(Ordered(
                        {i \in interactions :
                            /\ Permits("interactions", "SELECT", uid, i)
                            /\ i.user_id = uid}))]
    /\ UNCHANGED <<interactions, user_stats, tx, nextId, edits, log, lin,
                   settings, req, now, analytics, home, edgeVars>>

\* --------------------------------------------------------------------- Home

HomeQueries == {"today", "user_stats", "thisWeek", "lastWeek"}

\* useState of stats and isLoading; no toast shown yet
HomeMount ==
    [isLoading |-> TRUE, loaded |-> FALSE, failed |-> {}, toast |-> "none",
     todayCount |-> 0, currentStreak |-> 0, thisWeekCount |-> 0,
     lastWeekCount |-> 0]

\* .from('interactions').select('id').eq('user_id', user.id)
OwnInteractions(uid) ==
    {i \in interactions :
        Permits("interactions", "SELECT", uid, i) /\ i.user_id = uid}

\* weekStart = new Date(); weekStart.setDate(getDate() - getDay())
WeekStart == subDays(NewDate, getDay(NewDate))

\* .eq('date', today)
TodayInteractions(uid) ==
    {i \in OwnInteractions(uid) : i.date = ISODate(NewDate)}

\* .gte('date', weekStartStr)
ThisWeekInteractions(uid) ==
    {i \in OwnInteractions(uid) : i.date >= ISODate(WeekStart)}

\* .gte('date', lastWeekStart...).lte('date', lastWeekEnd...)
LastWeekInteractions(uid) ==
    {i \in OwnInteractions(uid) :
        /\ i.date >= ISODate(subDays(WeekStart, 7))
        /\ i.date <= ISODate(subDays(WeekStart, 1))}

\* .from('user_stats').select('current_streak').eq(...).single():
\* userStats?.current_streak || 0
CurrentStreakOf(uid) ==
    LET rows == {r \in RowsOf(user_stats, uid) :
                    Permits("user_stats", "SELECT", uid, r)}
    IN  IF rows = {} THEN 0 ELSE (CHOOSE r \in rows : TRUE).current_streak

\* what loadStats leaves in the view for a signed-in user. A query that
\* fails answers { data: null, error }, which setStats reads as 0
\* (data?.length || 0); only a call that rejects (thrown) reaches the catch
\* block, which shows the toast and skips setStats
StatsLoaded(uid, failed, thrown) ==
    IF thrown /\ failed # {}
    THEN [HomeMount EXCEPT !.isLoading = FALSE, !.failed = failed,
                           !.toast = "Error loading stats"]
    ELSE [isLoading |-> FALSE, loaded |-> TRUE, failed |-> failed,
          toast |-> "none",
          todayCount |-> IF "today" \in failed THEN 0
                         ELSE Cardinality(TodayInteractions(uid)),
          currentStreak |-> IF "user_stats" \in failed THEN 0
                            ELSE CurrentStreakOf(uid),
          thisWeekCount |-> IF "thisWeek" \in failed THEN 0
                            ELSE Cardinality(ThisWeekInteractions(uid)),
          lastWeekCount |-> IF "lastWeek" \in failed THEN 0
                            ELSE Cardinality(LastWeekInteractions(uid))]

\* loadStats for a signed-in user, from mount to the finally block
LoadStats(uid, failed, thrown) ==
    /\ home.isLoading
    /\ home' = StatsLoaded(uid, failed, thrown)
    /\ UNCHANGED <<interactions, user_stats, tx, nextId, edits, log, lin,
                   settings, req, now, analytics, csv, edgeVars>>

\* ------------------------------------------------------------ edge functions

\* the request's Authorization header: absent, a token getUser rejects, or
\* the token of a signed-in user
EdgeAuth == {"missing", "invalid", "valid"}

\* the key createClient is given, Deno.env SUPABASE_ANON_KEY: the function's
\* client sends this key with its queries, never the caller's token
EdgeKeys == {"anon", "service_role"}

\* the statuses the AI gateway answers with
UpstreamStatuses == {200, 402, 429, 500}

\* fetch to the gateway: it rejects (no response), or resolves with a status
Upstreams ==
    {[reached |-> FALSE, status |-> 0]}
    \cup {[reached |-> TRUE, status |-> s] : s \in UpstreamStatuses}

\* Response.ok
Ok(response) == response.reached /\ response.status \in 200..299

\* error.message, word by word
ErrNoHeader == <<"No", "authorization", "header">>
ErrInvalidToken == <<"Invalid", "user", "token">>
ErrFetch == <<"Failed", "to", "fetch", "interactions">>
ErrNoKey == <<"LOVABLE_API_KEY", "not", "configured">>
ErrUpstream(status) == <<"AI", "API", "error:", ToString(status)>>
ErrUnreachable == <<"error", "sending", "request">>
ErrNotJson == <<"Unexpected", "token">>

\* message.includes(word)
Includes(message, word) == \E k \in DOMAIN message : message[k] = word

\* a JSON body: kind "insights" has an insights array (items), "no_insights"
\* has none, "not_array" has an insights property that is no array, "error"
\* has an error message, "upstream" is the gateway's reply (value)
Payload(kind, items, message, value) ==
    [kind |-> kind, items |-> items, message |-> message, value |-> value]

NoPayload == Payload("none", <<>>, <<>>, "")

\* one insight: data holds the numbers the message is built from
Insight(title, type, data) == [title |-> title, type |-> type, data |-> data]

\* .from('interactions').select('*').eq('user_id', user.id)
\* .gte('date', thirtyDaysAgo.toISOString().split('T')[0]), sent with the
\* function's key: the anon key passes the policies as nobody
EdgeFetch(uid, key) ==
    {i \in interactions :
        /\ key = "service_role" \/ Permits("interactions", "SELECT", key, i)
        /\ i.user_id = uid
        /\ i.date >= ISODate(subDays(NewDate, 30))}

\* no call sent yet
NoCall ==
    [fn |-> "none", pc |-> "idle", auth |-> "valid", uid |-> "u1",
     key |-> "anon", storeFailed |-> FALSE, keySet |-> TRUE,
     upstream |-> [reached |-> TRUE, status |-> 200],
     reply |-> [json |-> TRUE, value |-> ""],
     sent |-> <<>>, response |-> [status |-> 0, body |-> NoPayload]]

\* ------------------------------------------------- ai-insights (endpoint)

\* what the gateway's 200 reply holds: a body that is not JSON, JSON without
\* choices[0].message.content, content without {...}, content whose {...}
\* does not parse, an object without insights, with insights that is no
\* array, with an empty array, with a list of insights
AiReplies ==
    {"not_json", "no_choices", "no_braces", "bad_json", "no_insights",
     "not_array", "empty", "insights"}

\* the insights the gateway wrote
AiWritten == <<Insight("Your pattern", "pattern", <<>>)>>

\* the catch block of the inner try: fallback insights if parsing fails
ParseFallback(fetched) ==
    <<Insight("Keep Building Momentum", "progress", <<Cardinality(fetched)>>),
      Insight("Quality Improvement", "suggestion",
              IF Cardinality(fetched) > 0 THEN <<AvgRating(fetched)>>
              ELSE <<>>)>>

\* fallbackInsights of the outer catch block
EndpointFallback ==
    <<Insight("Start Your Journey", "suggestion", <<>>),
      Insight("Consistency Matters", "progress", <<>>)>>

\* the error the outer try block throws, <<>> when it throws none
AiInsightsError(call) ==
    IF call.auth = "missing" THEN ErrNoHeader
    ELSE IF call.auth = "invalid" THEN ErrInvalidToken
    ELSE IF call.storeFailed THEN ErrFetch
    ELSE IF ~call.keySet THEN ErrNoKey
    ELSE IF ~call.upstream.reached THEN ErrUnreachable
    ELSE IF ~Ok(call.upstream) THEN ErrUpstream(call.upstream.status)
    ELSE IF call.reply.value = "not_json" THEN ErrNotJson
    ELSE <<>>

\* the Response of serve(): the outer catch answers every error with the
\* fallback insights, 401 if the message includes 'authentication'
AiInsights(call) ==
    LET error == AiInsightsError(call)
        fetched == EdgeFetch(call.uid, call.key)
        value == call.reply.value
    IN  IF error # <<>>
        THEN [status |-> IF Includes(error, "authentication") THEN 401
                         ELSE 500,
              body |-> Payload("insights", EndpointFallback, <<>>, "")]
        ELSE [status |-> 200,
              body |->
                IF value \in {"no_choices", "no_braces", "bad_json"}
                THEN Payload("insights", ParseFallback(fetched), <<>>, "")
                ELSE IF value = "insights"
                THEN Payload("insights", AiWritten, <<>>, "")
                ELSE IF value = "empty"
                THEN Payload("insights", <<>>, <<>>, "")
                ELSE Payload(value, <<>>, <<>>, "")]

\* serve() of ai-insights answers the call
ServeAiInsights ==
    /\ edge.fn = "ai-insights"
    /\ edge.pc = "sent"
    /\ edge' = [edge EXCEPT !.pc = "responded", !.response = AiInsights(edge)]
    /\ UNCHANGED <<interactions, user_stats, tx, nextId, edits, log, lin,
                   settings, req, now, analytics, csv, home, insights,
                   calls, shell>>

\* ------------------------------------------------ chat-insights (endpoint)

\* what the gateway's 200 reply says
ChatReplies == {"Nice streak!", "Keep going"}

\* aiResponse.json(): the value of a JSON body; a body that is not JSON
\* makes it reject
JsonParse(text) == text.value

\* JSON.stringify(value): a JSON body with the value
JsonStringify(value) == [json |-> TRUE, value |-> value]

ErrRateLimit ==
    <<"Rate", "limit", "exceeded.", "Too", "many", "requests", "right",
      "now.", "Please", "wait", "a", "moment", "and", "try", "again.">>

ErrPayment ==
    <<"AI", "service", "requires", "payment.", "Please", "contact",
      "support.">>

\* interactions.reduce((acc, i) => { acc[i.interaction_quality] = ... + 1 }):
\* one property per quality that occurs, named as it is stored
QualityBreakdown(fetched) ==
    [name \in {PropertyKey(i.interaction_quality) : i \in fetched} |->
        Cardinality({i \in fetched :
                        PropertyKey(i.interaction_quality) = name})]

\* qualityBreakdown[name] || 0: a property that does not exist reads
\* undefined
Tally(breakdown, name) ==
    IF name \in DOMAIN breakdown THEN breakdown[name] ELSE 0

\* .from('user_stats').select('*').eq('user_id', user.id).single(), sent
\* with the function's key; userStats?.current_streak || 0
EdgeStreak(uid, key) ==
    LET rows == {r \in user_stats :
                    /\ key = "service_role"
                        \/ Permits("user_stats", "SELECT", key, r)
                    /\ r.user_id = uid}
    IN  IF Cardinality(rows) = 1
        THEN (CHOOSE r \in rows : TRUE).current_streak
        ELSE 0

\* interactions[0].date after .order('date', { ascending: false }), NULL
\* for 'None yet'
MostRecent(fetched) ==
    IF fetched = {} THEN NULL
    ELSE (CHOOSE i \in fetched : \A j \in fetched : i.date >= j.date).date

\* dataContext: the numbers the system prompt gives the gateway
DataContext(uid, key) ==
    LET fetched == EdgeFetch(uid, key)
        qualityBreakdown == QualityBreakdown(fetched)
    IN  [currentStreak |-> EdgeStreak(uid, key),
         totalInteractions |-> Cardinality(fetched),
         todayInteractions |->
            Cardinality({i \in fetched : i.date = ISODate(NewDate)}),
         avgRating |-> AvgRating(fetched),
         good |-> Tally(qualityBreakdown, "good"),
         neutral |-> Tally(qualityBreakdown, "neutral"),
         bad |-> Tally(qualityBreakdown, "bad"),
         mostRecent |-> MostRecent(fetched)]

\* the error the try block throws before the gateway is called, <<>> when
\* it throws none
ChatErrorBefore(call) ==
    IF call.auth = "missing" THEN ErrNoHeader
    ELSE IF call.auth = "invalid" THEN ErrInvalidToken
    ELSE IF call.storeFailed THEN ErrFetch
    ELSE IF ~call.keySet THEN ErrNoKey
    ELSE <<>>

\* the Response of serve()
ChatInsights_No402(call) ==
    LET before == ChatErrorBefore(call)
        failed(status, message) ==
            [status |-> status, body |-> Payload("error", <<>>, message, "")]
    IN  IF before # <<>> THEN failed(500, before)
        ELSE IF ~call.upstream.reached THEN failed(500, ErrUnreachable)
        ELSE IF ~Ok(call.upstream)
        THEN IF call.upstream.status = 429 THEN failed(429, ErrRateLimit)
             ELSE failed(500, ErrUpstream(call.upstream.status))
        ELSE IF ~call.reply.json THEN failed(500, ErrNotJson)
        ELSE [status |-> 200,
              body |-> Payload("upstream", <<>>, <<>>,
                               JsonStringify(JsonParse(call.reply)).value)]

ChatInsights(call) ==
    LET before == ChatErrorBefore(call)
        failed(status, message) ==
            [status |-> status, body |-> Payload("error", <<>>, message, "")]
    IN  IF before # <<>> THEN failed(500, before)
        ELSE IF ~call.upstream.reached THEN failed(500, ErrUnreachable)
        ELSE IF ~Ok(call.upstream)
        THEN IF call.upstream.status = 429 THEN failed(429, ErrRateLimit)
             ELSE IF call.upstream.status = 402 THEN failed(402, ErrPayment)
             ELSE failed(500, ErrUpstream(call.upstream.status))
        ELSE IF ~call.reply.json THEN failed(500, ErrNotJson)
        ELSE [status |-> 200,
              body |-> Payload("upstream", <<>>, <<>>,
                               JsonStringify(JsonParse(call.reply)).value)]

\* serve() of chat-insights answers the call; sent is what it gave the
\* gateway, if it called it
ServeChatInsights ==
    /\ edge.fn = "chat-insights"
    /\ edge.pc = "sent"
    /\ edge' = [edge EXCEPT
                    !.pc = "responded",
                    !.sent = IF ChatErrorBefore(edge) = <<>>
                             THEN <<DataContext(edge.uid, edge.key)>>
                             ELSE <<>>,
                    !.response = ChatInsights(edge)]
    /\ UNCHANGED <<interactions, user_stats, tx, nextId, edits, log, lin,
                   settings, req, now, analytics, csv, home, insights,
                   calls, shell>>


\* ----------------------------------------------------------------- Insights

\* useState of insights, isLoading, isRefreshing
InsightsMount ==
    [isLoading |-> TRUE, isRefreshing |-> FALSE, insights |-> <<>>,
     toast |-> "none"]

\* supabase.functions.invoke: { data, error }, error for a non-2xx response
Invoke(response) ==
    IF response.status \in 200..299
    THEN [data |-> response.body, error |-> FALSE]
    ELSE [data |-> NoPayload, error |-> TRUE]

\* the fallback insights of loadInsights' catch block
ClientFallback ==
    <<Insight("Start Your Journey", "suggestion", <<>>),
      Insight("Consistency is Key", "progress", <<>>)>>

\* what loadInsights leaves in the view: data.insights if it is an array,
\* else the toast and the fallback; finally both flags false
InsightsLoaded_KeepOnError(result) ==
    IF ~result.error /\ result.data.kind = "insights"
    THEN [isLoading |-> FALSE, isRefreshing |-> FALSE,
          insights |-> result.data.items, toast |-> "none"]
    ELSE [isLoading |-> FALSE, isRefreshing |-> FALSE,
          insights |-> insights.insights, toast |-> "Error loading insights"]

InsightsLoaded(result) ==
    IF ~result.error /\ result.data.kind = "insights"
    THEN [isLoading |-> FALSE, isRefreshing |-> FALSE,
          insights |-> result.data.items, toast |-> "none"]
    ELSE [isLoading |-> FALSE, isRefreshing |-> FALSE,
          insights |-> ClientFallback, toast |-> "Error loading insights"]

\* loadInsights, from the function's response on
LoadInsights ==
    /\ edge.fn = "ai-insights"
    /\ edge.pc = "responded"
    /\ insights' = InsightsLoaded(Invoke(edge.response))
    /\ edge' = [edge EXCEPT !.pc = "handled"]
    /\ UNCHANGED <<interactions, user_stats, tx, nextId, edits, log, lin,
                   settings, req, now, analytics, csv, home, calls, shell>>

\* ------------------------------------------------- the views' pending calls

\* the views that load on mount
LoadingViews == {"home", "analytics", "insights"}

\* the calls a view's load awaits, in order
Awaits(view) ==
    CASE view = "home" ->
            <<"getUser", "today", "user_stats", "thisWeek", "lastWeek">>
      [] view = "analytics" -> <<"getUser", "interactions">>
      [] view = "insights" -> <<"invoke">>

\* how an awaited call can settle: getUser resolves with a user or with
\* none, or rejects; a query resolves with data or with { data: null,
\* error }, or rejects; invoke resolves with a list of insights, with data
\* that has none, or with an error, or rejects
Outcomes(name) ==
    CASE name = "getUser" -> {"ok", "no_user", "rejected"}
      [] name = "invoke" -> {"ok", "invalid", "error", "rejected"}
      [] OTHER -> {"ok", "error", "rejected"}

\* no load running
IdleCall == [pc |-> "idle", at |-> 1, outcome |-> "none", failed |-> {}]

NoCalls == [view \in LoadingViews |-> IdleCall]

\* the load awaits its first call
FirstCall == [IdleCall EXCEPT !.pc = "pending"]

\* what invoke resolved with
InvokeResult(outcome) ==
    CASE outcome = "ok" ->
            [data |-> Payload("insights", AiWritten, <<>>, ""),
             error |-> FALSE]
      [] outcome = "invalid" ->
            [data |-> Payload("no_insights", <<>>, <<>>, ""),
             error |-> FALSE]
      [] OTHER -> [data |-> NoPayload, error |-> TRUE]

\* the call a view awaits resolves or rejects
Settle(view, outcome) ==
    /\ calls[view].pc = "pending"
    /\ outcome \in Outcomes(Awaits(view)[calls[view].at])
    /\ calls' = [calls EXCEPT ![view].pc = "settled",
                              ![view].outcome = outcome]
    /\ UNCHANGED <<interactions, user_stats, tx, nextId, edits, log, lin,
                   settings, req, now, analytics, csv, home, insights, edge,
                   shell>>

\* the load continues after the await: it goes on to its next call, or it
\* returns through catch and finally
Resume(view) ==
    LET call == calls[view]
        name == Awaits(view)[call.at]
        failed == IF call.outcome \in {"error", "rejected"}
                  THEN call.failed \cup {name} ELSE call.failed
        more == /\ call.outcome \in {"ok", "error"}
                /\ call.at < Len(Awaits(view))
    IN  /\ call.pc = "settled"
        /\ calls' = [calls EXCEPT ![view] =
                        IF more
                        THEN [pc |-> "pending", at |-> call.at + 1,
                              outcome |-> "none", failed |-> failed]
                        ELSE IdleCall]
        /\ home' =
            IF view # "home" \/ more THEN home
            ELSE IF call.outcome = "no_user"
            THEN [home EXCEPT !.isLoading = FALSE]
            ELSE StatsLoaded("u1", failed, call.outcome = "rejected")
        /\ analytics' =
            IF view # "analytics" \/ more THEN analytics
            ELSE IF call.outcome = "no_user"
            THEN [analytics EXCEPT !.isLoading = FALSE]
            ELSE AnalyticsLoaded("u1", call.outcome)
        /\ insights' =
            IF view # "insights" THEN insights
            ELSE InsightsLoaded(InvokeResult(call.outcome))
        /\ UNCHANGED <<interactions, user_stats, tx, nextId, edits, log, lin,
                       settings, req, now, csv, edge, shell>>

\* handleRefresh of the Insights view: the button is disabled while
\* isRefreshing, and not rendered while isLoading
HandleRefresh ==
    /\ ~insights.isLoading
    /\ ~insights.isRefreshing
    /\ insights' = [insights EXCEPT !.isRefreshing = TRUE]
    /\ calls' = [calls EXCEPT !["insights"] = FirstCall]
    /\ UNCHANGED <<interactions, user_stats, tx, nextId, edits, log, lin,
                   settings, req, now, analytics, csv, home, edge, shell>>

\* ------------------------------------------------------------------- shell

\* useState(null) of user, useState(undefined) of editingInteractionId
SignedOut == "<null>"
Undefined == <<>>

\* the views renderCurrentView has a case for
RouterViews == {"home", "add", "history", "analytics", "insights", "settings"}

\* navItems of the bottom navigation
NavItems == {"home", "add", "history", "insights", "settings"}

\* useState of Index: user, loading, currentView, editingInteractionId; no
\* toast shown yet
ShellMount ==
    [user |-> SignedOut, loading |-> TRUE, currentView |-> "home",
     editingInteractionId |-> Undefined, toast |-> "none"]

\* the shell renders renderCurrentView() and the bottom navigation
Rendered == ~shell.loading /\ shell.user # SignedOut

\* if (editingId) in AddInteraction: the form updates the interaction
\* editingId names, or inserts a new one
FormMode == IF shell.editingInteractionId # Undefined THEN "edit" ELSE "create"

shellRest == <<settings, req, now, analytics, csv, home, insights, edge, calls>>

storeVars == <<interactions, user_stats, tx, nextId, edits, log, lin>>

\* getSession().then(...): setUser(session?.user ?? null); setLoading(false)
GetSession(user) ==
    /\ shell.loading
    /\ shell' = [shell EXCEPT !.user = user, !.loading = FALSE]
    /\ UNCHANGED <<storeVars, shellRest>>

\* AuthForm signs the user in: onAuthStateChange sets the user and
\* onSuccess sets the view
AuthSuccess(uid) ==
    /\ ~shell.loading
    /\ shell.user = SignedOut
    /\ shell' = [shell EXCEPT !.user = uid, !.currentView = "home"]
    /\ UNCHANGED <<storeVars, shellRest>>

\* a bottom-nav item is selected: onViewChange={setCurrentView}
OnViewChange(item) ==
    /\ Rendered
    /\ shell' = [shell EXCEPT !.currentView = item]
    /\ UNCHANGED <<storeVars, shellRest>>

\* Home's add button
OnAddInteraction ==
    /\ Rendered
    /\ shell.currentView = "home"
    /\ shell' = [shell EXCEPT !.editingInteractionId = Undefined,
                              !.currentView = "add"]
    /\ UNCHANGED <<storeVars, shellRest>>

\* History's edit button on one of the listed interactions
HandleEditInteraction(interactionId) ==
    /\ Rendered
    /\ shell.currentView = "history"
    /\ \E i \in interactions :
        /\ i.id = interactionId
        /\ i.user_id = shell.user
        /\ Permits("interactions", "SELECT", shell.user, i)
    /\ shell' = [shell EXCEPT !.editingInteractionId = interactionId,
                              !.currentView = "add"]
    /\ UNCHANGED <<storeVars, shellRest>>

\* the Add view's back button
OnBack ==
    /\ Rendered
    /\ shell.currentView = "add"
    /\ shell' = [shell EXCEPT !.editingInteractionId = Undefined,
                              !.currentView = "home"]
    /\ UNCHANGED <<storeVars, shellRest>>

\* handleSubmit of the Add view: update the interaction editingId names or
\* insert a new one, then onSuccess = handleAddInteractionSuccess; an error
\* leaves the view as it is, with a toast
HandleSubmit(d, failed) ==
    /\ Rendered
    /\ shell.currentView = "add"
    /\ IF failed
       THEN /\ shell' = [shell EXCEPT !.toast =
                            IF FormMode = "edit"
                            THEN "Error updating interaction"
                            ELSE "Error saving interaction"]
            /\ UNCHANGED storeVars
       ELSE /\ IF FormMode = "edit"
               THEN EditRow(shell.user, shell.editingInteractionId, d)
               ELSE Started < MaxTxns /\ InsertRow(shell.user, d)
            /\ shell' = [shell EXCEPT !.editingInteractionId = Undefined,
                                      !.currentView = "home",
                                      !.toast =
                                        IF FormMode = "edit"
                                        THEN "Interaction updated!"
                                        ELSE "Interaction logged!"]
    /\ UNCHANGED shellRest

\* Settings' sign-out: setUser(null); setCurrentView("home")
HandleSignOut ==
    /\ Rendered
    /\ shell.currentView = "settings"
    /\ shell' = [shell EXCEPT !.user = SignedOut, !.currentView = "home"]
    /\ UNCHANGED <<storeVars, shellRest>>

\* ------------------------------------------------ stores the views read

\* a stored row the view may read, or no row
RowChoices(dates, ratings, qualities) ==
    {[present |-> FALSE, date |-> Today, rating |-> DefaultRating,
      quality |-> NullText]}
    \cup {[present |-> TRUE, date |-> d, rating |-> r, quality |-> q] :
            d \in dates, r \in ratings, q \in qualities}

\* the rows are logged in the order of their date, then rating, then quality
ChoiceRank(c) ==
    (c.date * 100 + c.rating) * 3
        + (CASE c.quality = NullText -> 0 [] c.quality = "Good" -> 1
             [] OTHER -> 2)

\* the stats the trigger leaves after the rows of seq were inserted in order
RECURSIVE StatsAfter(_)
StatsAfter(seq) ==
    IF seq = <<>> THEN {}
    ELSE ApplyInsert(StatsAfter(SubSeq(seq, 1, Len(seq) - 1)), seq[Len(seq)])

\* the store after "u1" logged the chosen rows and "u2" one row
StoreHolds(choice) ==
    LET n == Cardinality({k \in DOMAIN choice : choice[k].present})
        rows == [k \in 1..n |->
                    CheckedRow(<<"u1", k>>, "u1", choice[k].date, NullText,
                               NullText, choice[k].rating, choice[k].quality)]
        other == CheckedRow(<<"u2", 1>>, "u2", Today, NullText, NullText,
                            10, "Good")
    IN  /\ \A k \in DOMAIN choice : choice[k].present <=> k <= n
        /\ \A k \in 2..n : ChoiceRank(choice[k - 1]) <= ChoiceRank(choice[k])
        /\ interactions = {rows[k] : k \in 1..n} \cup {other}
        /\ user_stats = StatsAfter(rows \o <<other>>)
        /\ nextId = [u \in Users |-> IF u = "u1" THEN n + 1 ELSE 2]
        /\ tx = [s \in Sessions |-> IdleTx]
        /\ edits = 0
        /\ log = [u \in Users |-> <<>>]
        /\ lin = {[stats |-> user_stats, done |-> {}]}
        /\ settings = SettingsIdle
        /\ req = NoRequest

\* --------------------------------------------------------- specifications

Init ==
    /\ interactions = {}
    /\ user_stats = {}
    /\ tx = [s \in Sessions |-> IdleTx]
    /\ nextId = [u \in Users |-> 1]
    /\ edits = 0
    /\ log = [u \in Users |-> <<>>]
    /\ lin = {[stats |-> {}, done |-> {}]}
    /\ settings = SettingsIdle
    /\ req = NoRequest
    /\ now = Clock(Today, Today, FALSE)
    /\ analytics = AnalyticsMount
    /\ csv = NoExport
    /\ home = HomeMount
    /\ insights = InsightsMount
    /\ edge = NoCall
    /\ calls = NoCalls
    /\ shell = ShellMount

\* concurrent sessions, statement by statement
Next ==
    \/ \E s \in Sessions, uid \in Users, d \in Days :
        Started < MaxTxns /\ InsertInteraction(s, uid, d)
    \/ \E s \in Sessions : SelectRecord(s)
    \/ \E s \in Sessions : UpdateStats(s)
    \/ \E s \in Sessions : Commit(s)
    \/ \E s \in Sessions : Abort(s)

Spec == Init /\ [][Next]_vars

\* one insert at a time
NextSerial ==
    \E uid \in Users, d \in Days :
        Started < MaxInserts /\ InsertSerial(uid, d)

SpecSerial == Init /\ [][NextSerial]_vars

\* inserts one at a time, and edits of the rows they leave
NextEdit ==
    \/ \E uid \in Users, d \in Days :
        Started < MaxTxns /\ InsertSerial(uid, d)
    \/ \E uid \in Users, r \in interactions, d \in Days :
        EditInteraction(uid, r.id, d)

SpecEdit == Init /\ [][NextEdit]_vars

\* inserts one at a time, and Delete-all from the Settings view
NextDelete ==
    \/ \E uid \in Users, d \in Days :
        Started < MaxTxns /\ settings.pc = "idle" /\ InsertSerial(uid, d)
    \/ \E uid \in Users : DeleteAllStart(uid)
    \/ \E failed \in BOOLEAN : DeleteInteractions(failed)
    \/ \E failed \in BOOLEAN : DeleteUserStats(failed)

SpecDelete == Init /\ [][NextDelete]_vars

\* the dates the requests carry: the first and the last day
RequestDays == {1, MaxDay}

\* two users sending any request to the two tables
NextRLS ==
    \/ \E actor \in Users, table \in {"interactions", "user_stats"} :
        ReqSelect(actor, table)
    \/ \E actor \in Users, owner \in Users, d \in RequestDays :
        ReqInsertInteraction(actor, owner, d)
    \/ \E actor \in Users, r \in interactions, owner \in Users, d \in RequestDays :
        ReqUpdateInteraction(actor, r, owner, d)
    \/ \E actor \in Users, r \in interactions : ReqDeleteInteraction(actor, r)
    \/ \E actor \in Users, owner \in Users : ReqInsertStats(actor, owner)
    \/ \E actor \in Users, r \in user_stats, owner \in Users :
        ReqUpdateStats(actor, r, owner)
    \/ \E actor \in Users, r \in user_stats : ReqDeleteStats(actor, r)

SpecRLS == Init /\ [][NextRLS]_vars

\* inserts and edits carrying any value for one column
NextCheck ==
    \/ \E actor \in Users, col \in CheckedColumns :
        \E v \in SentValues(col) : StoreInsert(actor, col, v)
    \/ \E actor \in Users, r \in interactions, col \in CheckedColumns :
        \E v \in SentValues(col) : StoreUpdate(actor, r, col, v)

SpecCheck == Init /\ [][NextCheck]_vars

\* the Analytics view mounted on any store, at any clock reading
AnalyticsDates == {Today - 31, Today - 30, Today, Today + 1}
AnalyticsRatings == {1, 2, 10}

InitAnalytics ==
    /\ \E choice \in [1..MaxFetched ->
            RowChoices(AnalyticsDates, AnalyticsRatings,
                       {NullText, "Good", "Bad"})] :
        StoreHolds(choice)
    /\ now \in Clocks({Today})
    /\ analytics = AnalyticsMount
    /\ csv = NoExport
    /\ home = HomeMount
    /\ insights = InsightsMount
    /\ edge = NoCall
    /\ calls = NoCalls
    /\ shell = ShellMount

NextAnalytics == \E failed \in BOOLEAN : LoadAnalytics("u1", failed)

SpecAnalytics == InitAnalytics /\ [][NextAnalytics]_vars

\* the export run on a store where "u1" has one interaction with any
\* location and any notes, and "u2" has one
InitExport ==
    /\ \E location \in Texts(MaxText) \cup {NullSeq},
          notes \in Texts(MaxText) \cup {NullSeq} :
        /\ interactions =
            {ExportRow(<<"u1", 1>>, "u1", Today, location, notes),
             ExportRow(<<"u2", 1>>, "u2", Today, <<"a">>, <<"a">>)}
        /\ user_stats =
            StatsAfter(<<ExportRow(<<"u1", 1>>, "u1", Today, location, notes),
                         ExportRow(<<"u2", 1>>, "u2", Today, <<"a">>, <<"a">>)>>)
    /\ nextId = [u \in Users |-> 2]
    /\ tx = [s \in Sessions |-> IdleTx]
    /\ edits = 0
    /\ log = [u \in Users |-> <<>>]
    /\ lin = {[stats |-> user_stats, done |-> {}]}
    /\ settings = SettingsIdle
    /\ req = NoRequest
    /\ now = Clock(Today, Today, FALSE)
    /\ analytics = AnalyticsMount
    /\ csv = NoExport
    /\ home = HomeMount
    /\ insights = InsightsMount
    /\ edge = NoCall
    /\ calls = NoCalls
    /\ shell = ShellMount

NextExport == \E failed \in BOOLEAN : ExportData("u1", failed)

SpecExport == InitExport /\ [][NextExport]_vars

\* the Home view mounted on any store, on a Sunday, a Wednesday or a
\* Saturday (UTC), at any clock reading; the dates lie in the week before,
\* the week of, and the day after the Wednesday
HomeDays == {Today + 2, Today + 5, Today + 8}
HomeDates ==
    {Today - 6, Today - 5, Today + 1, Today + 2, Today + 5, Today + 6}

InitHome ==
    /\ \E choice \in [1..MaxFetched ->
                        RowChoices(HomeDates, {DefaultRating}, {NullText})] :
        StoreHolds(choice)
    /\ now \in Clocks(HomeDays)
    /\ analytics = AnalyticsMount
    /\ csv = NoExport
    /\ home = HomeMount
    /\ insights = InsightsMount
    /\ edge = NoCall
    /\ calls = NoCalls
    /\ shell = ShellMount

NextHome ==
    \E failed \in SUBSET HomeQueries, thrown \in BOOLEAN :
        LoadStats("u1", failed, thrown)

SpecHome == InitHome /\ [][NextHome]_vars

\* the Insights view loading from ai-insights: any request, any store, any
\* answer of the gateway; the function's clock is in UTC
InsightsRequests ==
    {[NoCall EXCEPT !.fn = "ai-insights", !.pc = "sent", !.auth = a,
                    !.key = k, !.storeFailed = sf, !.keySet = ks,
                    !.upstream = u, !.reply.value = v] :
        a \in EdgeAuth, k \in EdgeKeys, sf \in BOOLEAN, ks \in BOOLEAN,
        u \in Upstreams, v \in AiReplies}

InitInsights ==
    /\ \E choice \in [1..MaxFetched ->
            RowChoices({Today - 31, Today}, {DefaultRating}, {"Good"})] :
        StoreHolds(choice)
    /\ now = Clock(Today, Today, FALSE)
    /\ analytics = AnalyticsMount
    /\ csv = NoExport
    /\ home = HomeMount
    /\ insights = InsightsMount
    /\ edge \in InsightsRequests
    /\ calls = NoCalls
    /\ shell = ShellMount

NextInsights == ServeAiInsights \/ LoadInsights

SpecInsights == InitInsights /\ [][NextInsights]_vars

\* a chat request to chat-insights: any request, any store, any answer of
\* the gateway; the function's clock is in UTC
ChatRequests ==
    {[NoCall EXCEPT !.fn = "chat-insights", !.pc = "sent", !.auth = a,
                    !.key = k, !.storeFailed = sf, !.keySet = ks,
                    !.upstream = u, !.reply = [json |-> j, value |-> v]] :
        a \in EdgeAuth, k \in EdgeKeys, sf \in BOOLEAN, ks \in BOOLEAN,
        u \in Upstreams, j \in BOOLEAN, v \in ChatReplies}

InitChat ==
    /\ \E choice \in [1..MaxFetched ->
            RowChoices({Today - 31, Today}, {DefaultRating},
                       {NullText, "Good", "Neutral", "Bad"})] :
        StoreHolds(choice)
    /\ now = Clock(Today, Today, FALSE)
    /\ analytics = AnalyticsMount
    /\ csv = NoExport
    /\ home = HomeMount
    /\ insights = InsightsMount
    /\ edge \in ChatRequests
    /\ calls = NoCalls
    /\ shell = ShellMount

NextChat == ServeChatInsights

SpecChat == InitChat /\ [][NextChat]_vars


\* the three views mounted, each awaiting the first call of its load
InitLoading ==
    /\ StoreHolds([k \in 1..MaxFetched |->
            [present |-> TRUE, date |-> Today, rating |-> DefaultRating,
             quality |-> "Good"]])
    /\ now = Clock(Today, Today, FALSE)
    /\ analytics = AnalyticsMount
    /\ csv = NoExport
    /\ home = HomeMount
    /\ insights = InsightsMount
    /\ edge = NoCall
    /\ calls = [view \in LoadingViews |-> FirstCall]
    /\ shell = ShellMount

NextLoading ==
    \/ \E view \in LoadingViews, outcome \in {"ok", "no_user", "invalid",
                                             "error", "rejected"} :
        Settle(view, outcome)
    \/ \E view \in LoadingViews : Resume(view)
    \/ HandleRefresh

SpecLoading == InitLoading /\ [][NextLoading]_vars

\* a settled promise's continuation is run by the event loop; nothing makes
\* a pending call settle
SpecLoadingFair ==
    SpecLoading /\ \A view \in LoadingViews : WF_vars(Resume(view))


\* the user moving through the shell on one device
ShellUsers == {"u1"}

NextShell ==
    \/ \E user \in ShellUsers \cup {SignedOut} : GetSession(user)
    \/ \E uid \in ShellUsers : AuthSuccess(uid)
    \/ \E item \in NavItems : OnViewChange(item)
    \/ OnAddInteraction
    \/ \E i \in interactions : HandleEditInteraction(i.id)
    \/ OnBack
    \/ \E failed \in BOOLEAN : HandleSubmit(MaxDay, failed)
    \/ HandleSignOut

SpecShell == Init /\ [][NextShell]_vars

\* a user who keeps using every control the shell offers
SpecShellFair ==
    /\ SpecShell
    /\ SF_vars(\E user \in ShellUsers \cup {SignedOut} : GetSession(user))
    /\ SF_vars(\E uid \in ShellUsers : AuthSuccess(uid))
    /\ \A item \in NavItems : SF_vars(OnViewChange(item))
    /\ SF_vars(OnAddInteraction)
    /\ SF_vars(\E i \in interactions : HandleEditInteraction(i.id))
    /\ SF_vars(OnBack)
    /\ SF_vars(\E failed \in BOOLEAN : HandleSubmit(MaxDay, failed))
    /\ SF_vars(HandleSignOut)


\* ------------------------------------------------------- claims C1..C10

\* the dates of the interactions inserted for u so far
LoggedDates(u) == {log[u][i].date : i \in 1..Len(log[u])}

MaxOf(S) == CHOOSE m \in S : \A x \in S : x <= m

\* the length of the longest run of consecutive dates in S that ends at
\* the latest date in S
TrailingRun(S) ==
    IF S = {} THEN 0
    ELSE LET m == MaxOf(S)
         IN  MaxOf({k \in 1..Cardinality(S) : \A j \in 0..(k - 1) : (m - j) \in S})

\* C1: after each insert, current_streak is the length of the maximal
\* trailing run of consecutive calendar dates ending at the most recent
\* interaction date, whatever the dates and their order.
C1_StreakIsTrailingRun ==
    \A u \in Users : \A r \in RowsOf(user_stats, u) :
        r.current_streak = TrailingRun(LoggedDates(u))

ExampleDates == <<1, 2, 2, 4>>
ExampleStreaks == <<1, 2, 2, 1>>

\* the inserts for u so far are the first inserts of the example
FollowsExample(u) ==
    /\ Len(log[u]) <= Len(ExampleDates)
    /\ \A i \in 1..Len(log[u]) : log[u][i].date = ExampleDates[i]

\* C2: from no stats row, inserts dated day 1, day 2, day 2, day 4 leave
\* current_streak at 1, 2, 2, 1 after the respective inserts.
C2_ExampleStreaks ==
    \A u \in Users :
        FollowsExample(u) =>
            \A i \in 1..Len(log[u]) :
                log[u][i].after.current_streak = ExampleStreaks[i]

\* C3: an insert that is the user's first, or whose date differs from the
\* stored last_interaction_date by anything but 0 or 1 day, leaves
\* current_streak at exactly 1.
C3_OtherwiseResetsToOne ==
    \A u \in Users : \A i \in 1..Len(log[u]) :
        LET e == log[u][i]
        IN  (\/ e.read.last_interaction_date = NULL
             \/ e.date - e.read.last_interaction_date \notin {0, 1})
                => e.after.current_streak = 1

\* C4: for a user with a last_interaction_date, an insert dated the same
\* day leaves current_streak as it was and an insert dated one day later
\* raises it by exactly 1.
C4_SameDayAndNextDay ==
    \A u \in Users : \A i \in 1..Len(log[u]) :
        LET e == log[u][i]
        IN  e.read.last_interaction_date # NULL =>
                /\ e.date = e.read.last_interaction_date
                    => e.after.current_streak = e.before.current_streak
                /\ e.date = e.read.last_interaction_date + 1
                    => e.after.current_streak = e.before.current_streak + 1

C4_Witness ==
    \E u \in Users : \E i, j \in 1..Len(log[u]) :
        /\ log[u][i].read.last_interaction_date # NULL
        /\ log[u][i].date = log[u][i].read.last_interaction_date
        /\ log[u][j].read.last_interaction_date # NULL
        /\ log[u][j].date = log[u][j].read.last_interaction_date + 1

\* C5: longest_streak never decreases from one insert to the next, and
\* after every insert longest_streak >= current_streak.
C5_LongestStreak ==
    /\ [](\A r \in user_stats : r.longest_streak >= r.current_streak)
    /\ [][\A r \in user_stats : \A q \in RowsOf(user_stats', r.user_id) :
            q.longest_streak >= r.longest_streak]_vars

C5_Witness ==
    \E r \in user_stats :
        /\ r.longest_streak > r.current_streak
        /\ r.current_streak >= 1

\* C6: last_interaction_date is the latest date among the user's logged
\* interactions, also after an insert dated before ones already logged.
C6_LastDateIsMax ==
    \A u \in Users : \A r \in RowsOf(user_stats, u) :
        r.last_interaction_date = MaxOf(LoggedDates(u))

\* C7: every committed insert raises the owner's total_interactions by
\* exactly 1, so it equals the number of interactions inserted for the user;
\* the stats row exists from the first insert on.
C7_TotalCountsInserts ==
    \A u \in Users :
        /\ RowsOf(interactions, u) # {} => RowsOf(user_stats, u) # {}
        /\ \A r \in RowsOf(user_stats, u) :
            r.total_interactions = Cardinality(RowsOf(interactions, u))
        /\ \A i \in 1..Len(log[u]) :
            log[u][i].after.total_interactions
                = log[u][i].before.total_interactions + 1

\* an insert whose UPDATE met a row another insert had changed since the
\* trigger read it
C7_Witness ==
    \E u \in Users : \E i \in 1..Len(log[u]) :
        /\ log[u][i].read # log[u][i].before
        /\ log[u][i].read.total_interactions >= 1

\* C8: concurrent inserts for one user leave the stats row that some
\* serial order of the same inserts leaves.
C8_Serializable ==
    \E c \in lin : c.done = {} /\ c.stats = user_stats

\* C9: an insert and its stats update commit or abort together: every
\* committed interaction has its stats update applied, every applied stats
\* update has its interaction committed.
C9_Atomic ==
    \A u \in Users :
        /\ \A r \in RowsOf(interactions, u) :
            \E i \in 1..Len(log[u]) : log[u][i].id = r.id
        /\ \A i \in 1..Len(log[u]) :
            \E r \in RowsOf(interactions, u) : r.id = log[u][i].id

\* a transaction was rolled back after another one of the user committed
C9_Witness ==
    \E u \in Users :
        /\ InFlight = {}
        /\ RowsOf(interactions, u) # {}
        /\ \E n \in 1..(nextId[u] - 1) :
            /\ \A r \in interactions : r.id # <<u, n>>
            /\ \E r \in interactions : r.id = <<u, n + 1>>

\* C10: editing an interaction, its date included, leaves every field of
\* the owner's stats row as it was; the stats change only on insert.
C10_EditLeavesStats ==
    /\ [][edits' # edits => user_stats' = user_stats]_vars
    /\ [][user_stats' # user_stats
            => Cardinality(interactions') = Cardinality(interactions) + 1]_vars

\* an interaction whose date was edited away from the date it was logged with
C10_Witness ==
    /\ edits > 0
    /\ \E u \in Users : \E i \in 1..Len(log[u]) : \E r \in interactions :
        /\ r.id = log[u][i].id
        /\ r.date # log[u][i].date
        /\ \E q \in RowsOf(user_stats, u) : q.last_interaction_date # r.date

\* ------------------------------------------------------ claims C11..C20

\* C11: whenever Delete-all completes without reporting an error (it shows
\* "All data deleted"), the user has no interaction row and no stats row
\* left in the store.
C11_DeleteAllRemovesAll ==
    [][(settings.pc = "delete_user_stats"
            /\ settings'.toast = "All data deleted") =>
        /\ RowsOf(interactions', settings.uid) = {}
        /\ RowsOf(user_stats', settings.uid) = {}]_vars

\* C12: whatever requests two users send, a user never reads a row of the
\* other, the rows of a user change only by that user's own requests (no
\* row of the other is created, modified or deleted), and a row keeps the
\* owner it was created with.
C12_RowsAreIsolated ==
    /\ [](\A r \in req.rows : r.user_id = req.actor)
    /\ [][\A u \in Users \ {req'.actor} :
            /\ RowsOf(interactions', u) = RowsOf(interactions, u)
            /\ RowsOf(user_stats', u) = RowsOf(user_stats, u)]_vars
    /\ [][\A r \in interactions, n \in interactions' :
            r.id = n.id => r.user_id = n.user_id]_vars

\* a user asked to delete a row of the other user, and the row is still there
C12_Witness ==
    /\ req.op = "DELETE" /\ req.table = "interactions"
    /\ req.owner # req.actor /\ req.outcome = "ok" /\ req.rows = {}
    /\ RowsOf(interactions, req.owner) # {}
    /\ RowsOf(user_stats, req.actor) # {}

\* C13: every stored interaction has attractiveness_rating in 1..10 and
\* each of age_range, ethnicity, interaction_quality unset or in its fixed
\* set; an insert or edit carrying anything else is rejected and changes
\* neither table.
InDomain(row) ==
    /\ row.attractiveness_rating \in 1..10
    /\ row.age_range \in AgeRanges \cup {NullText}
    /\ row.ethnicity \in Ethnicities \cup {NullText}
    /\ row.interaction_quality \in Qualities \cup {NullText}

C13_ValuesInDomain ==
    /\ [](\A r \in interactions : InDomain(r))
    /\ [][~InDomain(req'.sent) =>
            /\ req'.outcome = "error"
            /\ interactions' = interactions
            /\ user_stats' = user_stats]_vars

\* an edit that would set the rating of a stored row to 11 was rejected,
\* and a row with an unset age range and a set quality is stored
C13_Witness ==
    /\ req.op = "UPDATE" /\ req.outcome = "error"
    /\ req.sent.attractiveness_rating = 11
    /\ \E r \in interactions :
        /\ r.id = req.sent.id
        /\ r.age_range = NullText
        /\ r.interaction_quality = "Good"

\* the interactions the Analytics query returned to "u1"
Fetched == AnalyticsFetch("u1")

RECURSIVE SumSeries(_)
SumSeries(series) ==
    IF series = <<>> THEN 0
    ELSE series[1].interactions + SumSeries(Tail(series))

\* C14: once Analytics has loaded, the per-day counts of its 30-day series
\* add up to the number of interactions fetched for the window, the value
\* shown as the 30-day total.
C14_SeriesSumsToTotal ==
    analytics.loaded =>
        /\ analytics.totalInteractions = Cardinality(Fetched)
        /\ SumSeries(analytics.dailyData) = analytics.totalInteractions

\* C15: once Analytics has loaded, its daily series has exactly 30 points,
\* one per calendar date from 29 days before today through today in that
\* order, each with the number of the user's interactions on its date, 0
\* when the date has none.
C15_ThirtyDailyPoints ==
    analytics.loaded =>
        /\ Len(analytics.dailyData) = 30
        /\ \A k \in 1..30 :
            /\ analytics.dailyData[k].date = now.local - 30 + k
            /\ analytics.dailyData[k].interactions =
                Cardinality({i \in RowsOf(interactions, "u1") :
                                i.date = analytics.dailyData[k].date})

RECURSIVE SumBuckets(_)
SumBuckets(buckets) ==
    IF buckets = {} THEN 0
    ELSE LET b == CHOOSE b \in buckets : TRUE
         IN  b.value + SumBuckets(buckets \ {b})

\* C16: once Analytics has loaded, the counts of the quality breakdown add
\* up to the number of fetched interactions whose interaction_quality is
\* set; an interaction with no quality is in no bucket.
C16_BucketsSumToSetQualities ==
    analytics.loaded =>
        SumBuckets(analytics.qualityData) =
            Cardinality({i \in Fetched : i.interaction_quality # NullText})

\* C17: once Analytics has loaded, every distinct quality value among the
\* fetched interactions has exactly one bucket, holding the number of
\* interactions with that value; every bucket has count >= 1; a value with
\* no mapped colour has its bucket all the same, in the neutral colour.
C17_OneBucketPerValue ==
    analytics.loaded =>
        /\ \A v \in {i.interaction_quality : i \in Fetched} :
            \E b \in analytics.qualityData :
                /\ b.name = PropertyKey(v)
                /\ b.value = Cardinality({i \in Fetched :
                                            i.interaction_quality = v})
                /\ b.color = IF v \in Qualities THEN QualityColor(v)
                             ELSE "hsl(var(--muted))"
                /\ \A c \in analytics.qualityData : c.name = b.name => c = b
        /\ \A b \in analytics.qualityData :
            /\ b.value >= 1
            /\ \E i \in Fetched : PropertyKey(i.interaction_quality) = b.name

\* two values with a colour and the unset value each have their bucket
C17_Witness ==
    /\ analytics.loaded
    /\ \E b \in analytics.qualityData :
        b.name = "null" /\ b.color = "hsl(var(--muted))"
    /\ \E b \in analytics.qualityData : b.name = "Good" /\ b.value = 1
    /\ \E b \in analytics.qualityData : b.name = "Bad"
    /\ Cardinality(analytics.qualityData) = 3

\* C18: once Analytics has loaded, avgRating is exactly 0 when no
\* interaction was fetched, and otherwise the mean of the fetched ratings
\* rounded to one decimal, a value within 1..10 (avgRating is in tenths).
C18_AvgRating ==
    analytics.loaded =>
        LET n == Cardinality(Fetched)
            sum == SumRatings(Fetched)
        IN  IF n = 0
            THEN analytics.avgRating = 0
            ELSE /\ 2 * (10 * sum - n * analytics.avgRating) <= n
                 /\ 2 * (n * analytics.avgRating - 10 * sum) <= n
                 /\ analytics.avgRating >= 10
                 /\ analytics.avgRating <= 100

\* the mean of three ratings is not a whole number of tenths and was
\* rounded up
C18_Witness ==
    /\ analytics.loaded
    /\ Cardinality(Fetched) = 3
    /\ SumRatings(Fetched) = 5
    /\ analytics.avgRating = 17

\* no interaction in the window: the average is 0
C18_WitnessEmpty ==
    /\ analytics.loaded /\ Fetched = {} /\ analytics.avgRating = 0
    /\ RowsOf(interactions, "u1") # {}

\* reading a CSV text back (RFC 4180, and lenient where it is silent): a
\* field that starts with a quote runs to its closing quote, a doubled quote
\* inside it is one quote; a comma ends a field and a line break a record
RECURSIVE ReadCsv(_, _, _, _, _)
ReadCsv(text, mode, field, record, records) ==
    IF text = <<>>
    THEN records \o <<record \o <<field>>>>
    ELSE LET c == Head(text)
             rest == Tail(text)
             endField == ReadCsv(rest, "start", <<>>, record \o <<field>>,
                                 records)
             endRecord == ReadCsv(rest, "start", <<>>, <<>>,
                                  records \o <<record \o <<field>>>>)
         IN  CASE mode = "start" /\ c = QUOTE ->
                    ReadCsv(rest, "quoted", <<>>, record, records)
               [] mode = "quoted" /\ c = QUOTE ->
                    ReadCsv(rest, "closed", field, record, records)
               [] mode = "quoted" /\ c # QUOTE ->
                    ReadCsv(rest, "quoted", field \o <<c>>, record, records)
               [] mode = "closed" /\ c = QUOTE ->
                    ReadCsv(rest, "quoted", field \o <<c>>, record, records)
               [] mode # "quoted" /\ c = COMMA -> endField
               [] mode # "quoted" /\ c = NEWLINE -> endRecord
               [] OTHER ->
                    ReadCsv(rest, "plain", field \o <<c>>, record, records)

\* the interaction of "u1" the export wrote
Exported == CHOOSE i \in interactions : i.user_id = "u1"

\* C19: whatever the notes text, the exported file ends with the note as a
\* quoted field with each double quote doubled, and reading the file back
\* gives a header and one record of eight fields whose Notes field is the
\* original notes text.
C19_NotesRoundTrip ==
    csv.toast = "Data exported" =>
        LET records == ReadCsv(csv.content, "start", <<>>, <<>>, <<>>)
            written == <<QUOTE>> \o DoubleQuotes(OrEmpty(Exported.notes))
                            \o <<QUOTE>>
        IN  /\ Len(csv.content) >= Len(written)
            /\ SubSeq(csv.content, Len(csv.content) - Len(written) + 1,
                      Len(csv.content)) = written
            /\ Len(records) = 2
            /\ Len(records[2]) = Len(Headers)
            /\ records[2][Len(Headers)] = OrEmpty(Exported.notes)

\* C20: once Home has loaded with every query answered, then for today
\* (read as the UTC or as the local calendar date) and weekStart the most
\* recent Sunday on or before today: todayCount is the number of the
\* user's interactions dated today, thisWeekCount the number dated on or
\* after weekStart, lastWeekCount the number dated in the 7 days before
\* weekStart; the two week windows share no interaction and every
\* interaction counted today is counted this week.
C20_HomeCounts ==
    (home.loaded /\ home.failed = {}) =>
        /\ \E today \in {now.utc, now.local} :
            LET weekStart == today - (today % 7)
                own == RowsOf(interactions, "u1")
            IN  /\ home.todayCount =
                    Cardinality({i \in own : i.date = today})
                /\ home.thisWeekCount =
                    Cardinality({i \in own : i.date >= weekStart})
                /\ home.lastWeekCount =
                    Cardinality({i \in own : /\ i.date >= weekStart - 7
                                             /\ i.date < weekStart})
        /\ ThisWeekInteractions("u1") \cap LastWeekInteractions("u1") = {}
        /\ TodayInteractions("u1") \subseteq ThisWeekInteractions("u1")

\* ------------------------------------------------------ claims C21..C30

\* C21: once Home has finished loading with one of its four queries
\* failed, the error toast is shown and the value the failed query feeds
\* is at its zero state.
C21_HomeToastOnFailure ==
    (~home.isLoading /\ Cardinality(home.failed) = 1) =>
        /\ home.toast = "Error loading stats"
        /\ "today" \in home.failed => home.todayCount = 0
        /\ "user_stats" \in home.failed => home.currentStreak = 0
        /\ "thisWeek" \in home.failed => home.thisWeekCount = 0
        /\ "lastWeek" \in home.failed => home.lastWeekCount = 0

\* the failure paths of insight generation: a missing or invalid token, a
\* failed store query, a non-OK answer of the gateway, a reply with no
\* parseable JSON, a reply without an insights array
FailurePath(call) ==
    \/ call.auth # "valid"
    \/ call.storeFailed
    \/ ~Ok(call.upstream)
    \/ call.reply.value \in
        {"not_json", "no_choices", "no_braces", "bad_json", "no_insights",
         "not_array"}

\* the hand-written lists of the endpoint and of the view
FallbackLists ==
    {ClientFallback, EndpointFallback,
     ParseFallback(EdgeFetch(edge.uid, edge.key))}

\* C22: once the Insights view has handled the answer of a call that took a
\* failure path, it is no longer loading and shows one of the hand-written
\* fallback lists, which is not empty.
C22_FallbackOnFailure ==
    (edge.fn = "ai-insights" /\ edge.pc = "handled" /\ FailurePath(edge)) =>
        /\ ~insights.isLoading
        /\ ~insights.isRefreshing
        /\ insights.insights \in FallbackLists
        /\ insights.insights # <<>>

C22_Witness ==
    /\ edge.fn = "ai-insights"
    /\ edge.pc = "handled"
    /\ edge.auth = "valid"
    /\ ~edge.storeFailed
    /\ edge.keySet
    /\ Ok(edge.upstream)
    /\ edge.reply.value = "no_insights"
    /\ insights.insights = ClientFallback

C22_WitnessParse ==
    /\ edge.pc = "handled"
    /\ AiInsightsError(edge) = <<>>
    /\ edge.reply.value = "no_braces"
    /\ insights.insights = ParseFallback(EdgeFetch(edge.uid, edge.key))
    /\ Cardinality(EdgeFetch(edge.uid, edge.key)) > 1

\* C24: the endpoint's answers to an upstream 429, to an upstream 402 and to
\* another upstream failure (500) differ pairwise in status or payload.
C24_UpstreamOutcomesDiffer ==
    (edge.fn = "ai-insights" /\ edge.pc = "sent") =>
        LET answer(s) ==
                AiInsights([edge EXCEPT !.auth = "valid",
                                        !.storeFailed = FALSE,
                                        !.keySet = TRUE,
                                        !.upstream = [reached |-> TRUE,
                                                      status |-> s]])
        IN  /\ answer(429) # answer(402)
            /\ answer(429) # answer(500)
            /\ answer(402) # answer(500)

\* C29: the endpoint answers a request with no Authorization header or an
\* invalid token with status 401, and every other failure with status 500.
C29_AuthFailureIs401 ==
    (edge.fn = "ai-insights" /\ edge.pc = "responded"
        /\ AiInsightsError(edge) # <<>>) =>
        edge.response.status =
            (IF edge.auth \in {"missing", "invalid"} THEN 401 ELSE 500)


\* C23: when chat-insights has called the gateway, an upstream 429 is
\* answered 429 with the rate-limit message, an upstream 402 is answered 402
\* with the payment message, every other failure is answered 500 with an
\* error message, and a successful reply is answered 200 with the reply's
\* value.
C23_ChatStatusClasses ==
    (edge.fn = "chat-insights" /\ edge.pc = "responded") =>
        LET called == ChatErrorBefore(edge) = <<>>
            up == edge.upstream
            answer == edge.response
        IN  IF called /\ up.reached /\ up.status = 429
            THEN answer.status = 429 /\ answer.body.message = ErrRateLimit
            ELSE IF called /\ up.reached /\ up.status = 402
            THEN answer.status = 402 /\ answer.body.message = ErrPayment
            ELSE IF called /\ Ok(up) /\ edge.reply.json
            THEN /\ answer.status = 200
                 /\ answer.body.kind = "upstream"
                 /\ answer.body.value = edge.reply.value
            ELSE /\ answer.status = 500
                 /\ answer.body.kind = "error"
                 /\ answer.body.message \notin {<<>>, ErrRateLimit, ErrPayment}

C23_Witness ==
    /\ edge.fn = "chat-insights"
    /\ edge.pc = "responded"
    /\ ChatErrorBefore(edge) = <<>>
    /\ edge.upstream.reached
    /\ edge.upstream.status = 402
    /\ edge.response.status = 402

C23_WitnessOk ==
    /\ edge.fn = "chat-insights"
    /\ edge.pc = "responded"
    /\ edge.response.status = 200
    /\ edge.response.body.value = "Keep going"

Loading(view) ==
    CASE view = "home" -> home.isLoading
      [] view = "analytics" -> analytics.isLoading
      [] view = "insights" -> insights.isLoading \/ insights.isRefreshing

\* C25: for Home, Analytics and Insights, once the call the view awaits has
\* resolved or rejected, the view eventually is not loading any more or
\* awaits its next call; and a view is loading only while its load has a
\* call pending or just settled.
C25_LoadingEnds ==
    /\ \A view \in LoadingViews :
        (calls[view].pc = "settled") ~>
            (~Loading(view) \/ calls[view].pc = "pending")
    /\ [](\A view \in LoadingViews :
            Loading(view) => calls[view].pc \in {"pending", "settled"})

C25_Witness ==
    /\ ~home.isLoading /\ home.loaded
    /\ ~analytics.isLoading /\ ~analytics.loaded
    /\ ~insights.isLoading /\ ~insights.isRefreshing
    /\ insights.toast = "Error loading insights"
    /\ \A view \in LoadingViews : calls[view].pc = "idle"


\* the Add view is entered through the bottom-nav 'Add' item or through
\* Home's add button
EntersAdd ==
    /\ shell.currentView # "add"
    /\ OnViewChange("add") \/ OnAddInteraction

\* C26: an edit target is held only while the Add view is shown, and
\* whenever the Add view is entered through the bottom-nav 'Add' item or
\* Home's add button, editingInteractionId is undefined afterwards: the form
\* opens in create mode.
C26_AddOpensInCreateMode ==
    /\ [](shell.editingInteractionId # Undefined => shell.currentView = "add")
    /\ [][EntersAdd => (shell.editingInteractionId' = Undefined
                            /\ FormMode' = "create")]_vars

\* C27: a user who keeps using every control of the shell and of the bottom
\* navigation is shown every view the router handles.
C27_EveryViewReachable ==
    \A view \in RouterViews : <>(Rendered /\ shell.currentView = view)

\* the Analytics view is never shown
AnalyticsNeverShown == shell.currentView # "analytics"


\* C30: reading the exported file back gives the header and, for the stored
\* interaction, one record of exactly eight fields in the header's order,
\* whose Location and Notes fields are the stored texts (empty for null),
\* whatever characters the location holds.
C30_EightFieldsPerRow ==
    csv.toast = "Data exported" =>
        LET records == ReadCsv(csv.content, "start", <<>>, <<>>, <<>>)
        IN  /\ Len(records) = 2
            /\ Len(records[1]) = Len(Headers)
            /\ Len(records[2]) = Len(Headers)
            /\ records[2][3] = OrEmpty(Exported.location)
            /\ records[2][Len(Headers)] = OrEmpty(Exported.notes)


====
